---- MODULE Spec2Model ----
(***************************************************************************)
(* Model of src/index.tsx: the feed loader (fetchClusterData), the feed    *)
(* normaliser (the items.map callback), the layout engine (drawProduct)    *)
(* and the batch loop (runBatchProcess) of the App component.              *)
(***************************************************************************)
EXTENDS Integers, Sequences, FiniteSets, TLC

(***************************************************************************)
(* Bounds of the model.                                                    *)
(***************************************************************************)
\* longest raw text of a feed field that the normaliser is applied to
MaxTextLen == 2
\* user gestures (clicks, key presses, edits) in one behaviour of the app
MaxGestures == 2

(***************************************************************************)
(* JavaScript values.                                                      *)
(* A string is a sequence of one-character strings.  A number is a record: *)
(* NaN, or the rational n/d in lowest terms (d > 0).                       *)
(***************************************************************************)
Digits == {"0", "1", "2", "3", "4", "5", "6", "7", "8", "9"}
Space == {" "}

DigitVal(c) ==
    CASE c = "0" -> 0 [] c = "1" -> 1 [] c = "2" -> 2 [] c = "3" -> 3
      [] c = "4" -> 4 [] c = "5" -> 5 [] c = "6" -> 6 [] c = "7" -> 7
      [] c = "8" -> 8 [] c = "9" -> 9

RECURSIVE Gcd(_, _)
Gcd(a, b) == IF b = 0 THEN a ELSE Gcd(b, a % b)

NaN == [nan |-> TRUE, n |-> 0, d |-> 1]
Num(a, b) == LET g == Gcd(IF a < 0 THEN -a ELSE a, b)
             IN  [nan |-> FALSE, n |-> a \div g, d |-> b \div g]
IntNum(a) == [nan |-> FALSE, n |-> a, d |-> 1]

\* x > k, x <= k, x !== k for a number x and an integer k; every comparison
\* with NaN is false (and NaN !== k is true)
NumGt(x, k) == ~x.nan /\ x.n > k * x.d
NumGe(x, k) == ~x.nan /\ x.n >= k * x.d
NumLe(x, k) == ~x.nan /\ x.n <= k * x.d
\* x / y for numbers with y > 0
NumDiv(x, y) == IF x.nan \/ y.nan THEN NaN ELSE Num(x.n * y.d, x.d * y.n)

RECURSIVE Pow10(_)
Pow10(k) == IF k = 0 THEN 1 ELSE 10 * Pow10(k - 1)

\* the value of a sequence of digits read as a decimal numeral
RECURSIVE DigitsVal(_)
DigitsVal(s) ==
    IF s = <<>> THEN 0 ELSE 10 * DigitsVal(SubSeq(s, 1, Len(s) - 1)) + DigitVal(s[Len(s)])

\* the longest prefix of s whose characters are all in the set cs
RECURSIVE TakeWhile(_, _)
TakeWhile(s, cs) ==
    IF s = <<>> \/ Head(s) \notin cs THEN <<>> ELSE <<Head(s)>> \o TakeWhile(Tail(s), cs)

Drop(s, k) == SubSeq(s, k + 1, Len(s))

RECURSIVE DropWhile(_, _)
DropWhile(s, cs) ==
    IF s = <<>> \/ Head(s) \notin cs THEN s ELSE DropWhile(Tail(s), cs)

RECURSIVE Reverse(_)
Reverse(s) == IF s = <<>> THEN <<>> ELSE Reverse(Tail(s)) \o <<Head(s)>>

\* String.prototype.trim
Trim(s) == Reverse(DropWhile(Reverse(DropWhile(s, Space)), Space))

\* s.replace(/[^\d.,]/g, '')
RECURSIVE KeepPriceChars(_)
KeepPriceChars(s) ==
    IF s = <<>> THEN <<>>
    ELSE IF Head(s) \in Digits \cup {".", ","}
         THEN <<Head(s)>> \o KeepPriceChars(Tail(s))
         ELSE KeepPriceChars(Tail(s))

\* s.replace(',', '.'): a string pattern replaces the first occurrence only
RECURSIVE ReplaceFirstComma(_)
ReplaceFirstComma(s) ==
    IF s = <<>> THEN <<>>
    ELSE IF Head(s) = "," THEN <<".">> \o Tail(s)
         ELSE <<Head(s)>> \o ReplaceFirstComma(Tail(s))

\* parseFloat on a string of digits, '.' and ',' (after leading white space):
\* the longest prefix that is a decimal literal, NaN when it has no digit
ParseFloat(str) ==
    LET s    == DropWhile(str, Space)
        ip   == TakeWhile(s, Digits)
        rest == Drop(s, Len(ip))
        fp   == IF rest # <<>> /\ Head(rest) = "." THEN TakeWhile(Tail(rest), Digits) ELSE <<>>
    IN  IF ip = <<>> /\ fp = <<>> THEN NaN
        ELSE Num(DigitsVal(ip) * Pow10(Len(fp)) + DigitsVal(fp), Pow10(Len(fp)))

\* parseInt(str, 10) on a string without sign characters
ParseInt(str) ==
    LET ip == TakeWhile(DropWhile(str, Space), Digits)
    IN  IF ip = <<>> THEN NaN ELSE IntNum(DigitsVal(ip))

\* instText.match(/(\d+)/): the first run of digits, <<>> when there is none
FirstDigitRun(s) == TakeWhile(DropWhile(s, {c \in {s[i] : i \in 1..Len(s)} : c \notin Digits}), Digits)

(***************************************************************************)
(* Feed normaliser: the callback of items.map in fetchClusterData.         *)
(* A product element is a record: els maps the qualified name of each      *)
(* descendant element it has to that element's textContent (the first      *)
(* element of that name), months maps the names of the months children of  *)
(* its installment node to their textContent.                              *)
(***************************************************************************)
HasEl(item, t) == t \in DOMAIN item.els

\* el && el.textContent for el = item.getElementsByTagName(t)[0]
ElText(item, t) == IF HasEl(item, t) THEN item.els[t] ELSE <<>>

\* one iteration of the loop of getText: t, then g:t, then ns:t
TagVariants(t) == <<t, "g:" \o t, "ns:" \o t>>

RECURSIVE FirstText(_, _)
FirstText(item, names) ==
    IF names = <<>> THEN <<>>
    ELSE IF ElText(item, Head(names)) # <<>> THEN Trim(ElText(item, Head(names)))
         ELSE FirstText(item, Tail(names))

RECURSIVE AllVariants(_)
AllVariants(tags) == IF tags = <<>> THEN <<>> ELSE TagVariants(Head(tags)) \o AllVariants(Tail(tags))

getText(item, tags) == FirstText(item, AllVariants(tags))

\* the installments of a product element
MonthsText(item) ==
    IF "g:months" \in DOMAIN item.months /\ item.months["g:months"] # <<>>
    THEN item.months["g:months"]
    ELSE IF "months" \in DOMAIN item.months THEN item.months["months"] ELSE <<>>

InstallmentsOf(item) ==
    IF HasEl(item, "g:installment") \/ HasEl(item, "installment")
    THEN IF MonthsText(item) # <<>> THEN ParseInt(MonthsText(item)) ELSE IntNum(1)
    ELSE LET instText == getText(item, <<"installment", "installments">>)
         IN  IF instText # <<>> /\ FirstDigitRun(instText) # <<>>
             THEN ParseInt(FirstDigitRun(instText))
             ELSE IntNum(1)

parsePrice(p) ==
    IF p = <<>> THEN IntNum(0)
    ELSE ParseFloat(ReplaceFirstComma(KeepPriceChars(p)))

SinNombre == <<"S", "i", "n", " ", "N", "o", "m", "b", "r", "e">>
NoSku == <<"N", "/", "A">>

\* rawImage.split('?')[0]
BeforeQuery(s) == TakeWhile(s, {s[i] : i \in 1..Len(s)} \ {"?"})

ProxyImage(rawImage) ==
    IF BeforeQuery(rawImage) = <<>> THEN <<>>
    ELSE <<"https://wsrv.nl/?url=">> \o BeforeQuery(rawImage) \o <<"&output=jpg&w=1000&h=1000">>

\* the elements for which id || Math.random().toString(36) calls Math.random
NeedsRandomId(items) == {i \in 1..Len(items) : getText(items[i], <<"id", "sku", "g:id">>) = <<>>}

\* the record the callback returns for element i of items; rnds[i] is the
\* value of Math.random().toString(36) where it is called, ref the identity
\* of the object created
MapItem(items, i, rnds, ref) ==
    LET item == items[i] IN
    LET title        == getText(item, <<"title", "name">>)
        id           == getText(item, <<"id", "sku", "g:id">>)
        rawPrice     == getText(item, <<"price", "g:price">>)
        rawSalePrice == getText(item, <<"sale_price", "g:sale_price">>)
        rawImage     == getText(item, <<"image_link", "g:image_link">>)
        price        == IF rawSalePrice # <<>> THEN parsePrice(rawSalePrice) ELSE parsePrice(rawPrice)
        listPrice    == IF rawSalePrice # <<>> /\ rawPrice # <<>> THEN parsePrice(rawPrice) ELSE IntNum(0)
    IN  [ref          |-> ref,
         id           |-> IF id # <<>> THEN id ELSE rnds[i],
         name         |-> IF title # <<>> THEN title ELSE SinNombre,
         price        |-> price,
         listPrice    |-> listPrice,
         imageUrl     |-> ProxyImage(rawImage),
         installments |-> InstallmentsOf(item),
         freeShipping |-> NumGt(price, 100000),
         sku          |-> IF id # <<>> THEN id ELSE NoSku,
         pickup       |-> TRUE,
         bankPromo    |-> <<>>]

\* mappedProducts.filter(p => p.price > 0 || p.name !== "Sin Nombre")
KeepProduct(p) == NumGt(p.price, 0) \/ p.name # SinNombre

RECURSIVE FilterSeq(_)
FilterSeq(ps) ==
    IF ps = <<>> THEN <<>>
    ELSE IF KeepProduct(Head(ps)) THEN <<Head(ps)>> \o FilterSeq(Tail(ps))
         ELSE FilterSeq(Tail(ps))

(***************************************************************************)
(* Transport responses and the tail of fetchClusterData.                   *)
(* A response body is a record: text is its text as a sequence of tokens   *)
(* (white space, document markers, other markup), dom is what DOMParser    *)
(* returns for that text: whether it holds a parsererror element, and the  *)
(* elements getElementsByTagName finds for 'item', 'entry' and 'product'.  *)
(***************************************************************************)
StrategyNames == <<"AllOrigins Raw", "CORSProxy", "AllOrigins Wrapped">>
NumStrategies == Len(StrategyNames)
isWrapped(k) == k = 3

WhiteTokens == {" ", "\n"}

\* String.prototype.toLowerCase on a token
LowerToken(t) ==
    CASE t = "<!DOCTYPE html" -> "<!doctype html"
      [] t = "<!DOCTYPE HTML" -> "<!doctype html"
      [] t = "<HTML" -> "<html"
      [] OTHER -> t

TrimTokens(text) == Reverse(DropWhile(Reverse(DropWhile(text, WhiteTokens)), WhiteTokens))

\* xmlText.trim().toLowerCase().startsWith('<!doctype html') || xmlText.includes('<html')
IsHtml(text) ==
    \/ TrimTokens(text) # <<>> /\ LowerToken(Head(TrimTokens(text))) = "<!doctype html"
    \/ \E i \in 1..Len(text) : text[i] = "<html"

MsgNoXml == "No se pudo obtener el XML. Verifique la URL o intente mas tarde."
MsgHtml(successSource) ==
    "El proxy (" \o successSource \o ") devolvio una pagina HTML en vez de XML. Puede que la URL este bloqueada o sea invalida."
MsgParse == "Error al procesar el formato XML. El archivo podria estar corrupto."
MsgNoItems == "El XML no contiene productos (se buscaron etiquetas <item>, <entry>, <product>)."
MsgNoValid == "Se encontraron items pero no se pudo extraer informacion valida (precios/nombres)."

\* the elements the three getElementsByTagName calls settle on
FindItems(dom) ==
    IF dom.item # <<>> THEN dom.item
    ELSE IF dom.entry # <<>> THEN dom.entry
    ELSE dom.product

\* items.map(...): load is the number of the call that creates the objects
MappedProducts(items, rnds, load) ==
    [i \in 1..Len(items) |-> MapItem(items, i, rnds, [load |-> load, idx |-> i])]

\* ProcessFeed with setProducts called on the unfiltered mappedProducts:
\* the variant claim C2 is tested against
ProcessFeedKeepsMapped(xmlText, successSource, rnds, load) ==
    LET items  == FindItems(xmlText.dom)
        mapped == MappedProducts(items, rnds, load)
        valid  == FilterSeq(mapped)
        fail(msg) == [thrown |-> msg, setProducts |-> FALSE, products |-> <<>>]
    IN  IF xmlText.text = <<>> THEN fail(MsgNoXml)
        ELSE IF IsHtml(xmlText.text) THEN fail(MsgHtml(successSource))
        ELSE IF xmlText.dom.parsererror THEN fail(MsgParse)
        ELSE IF items = <<>> THEN fail(MsgNoItems)
        ELSE IF valid = <<>> THEN [thrown |-> MsgNoValid, setProducts |-> TRUE, products |-> mapped]
        ELSE [thrown |-> "", setProducts |-> TRUE, products |-> valid]

\* What the code after the strategies loop does with xmlText: thrown is the
\* message of the Error it throws ("" when it throws none), setProducts says
\* whether setProducts(validProducts) was reached, products is validProducts.
ProcessFeed(xmlText, successSource, rnds, load) ==
    LET items == FindItems(xmlText.dom)
        valid == FilterSeq(MappedProducts(items, rnds, load))
        fail(msg) == [thrown |-> msg, setProducts |-> FALSE, products |-> <<>>]
    IN  IF xmlText.text = <<>> THEN fail(MsgNoXml)
        ELSE IF IsHtml(xmlText.text) THEN fail(MsgHtml(successSource))
        ELSE IF xmlText.dom.parsererror THEN fail(MsgParse)
        ELSE IF items = <<>> THEN fail(MsgNoItems)
        ELSE IF valid = <<>> THEN [thrown |-> MsgNoValid, setProducts |-> TRUE, products |-> valid]
        ELSE [thrown |-> "", setProducts |-> TRUE, products |-> valid]

(***************************************************************************)
(* Layout engine: drawProduct.  A paint operation records the call (kind),  *)
(* the fillStyle in force (fill), its geometry and its text; part names    *)
(* the layer after the code's section comments.  The literal texts of the  *)
(* code are written here without their accents and inverted marks.         *)
(***************************************************************************)
WIDTH == 1000
HEIGHT == 1000
frameTop == 130
frameBottom == 130
safeAreaTop == frameTop
safeAreaHeight == HEIGHT - frameTop - frameBottom

pardoBlue == "#0033A0"
orangeBadge == "#FF6600"
debitBadge == "#0055FF"
pickupBadge == "#B3D4FC"
priceColor == "#FF6600"
frameText == "#FFFF00"

Op(part, kind, fill, x, y, w, h, text) ==
    [part |-> part, kind |-> kind, fill |-> fill, x |-> x, y |-> y, w |-> w, h |-> h, text |-> text]
Rect(part, fill, x, y, w, h) == Op(part, "fillRect", fill, x, y, w, h, <<>>)
Round(part, fill, x, y, w, h) == Op(part, "roundRect", fill, x, y, w, h, <<>>)
Text(part, fill, text, x, y) == Op(part, "fillText", fill, x, y, 0, 0, text)

\* Number.prototype.toString of a non-negative integer
RECURSIVE NatToString(_)
NatToString(k) ==
    IF k < 10 THEN <<CHOOSE c \in Digits : DigitVal(c) = k>>
    ELSE NatToString(k \div 10) \o <<CHOOSE c \in Digits : DigitVal(c) = k % 10>>

\* installments.toString(): installments is NaN or a non-negative integer
NumToString(x) == IF x.nan THEN <<"NaN">> ELSE NatToString(x.n)

\* the es-AR grouping of an integer part: a '.' before every group of three
RECURSIVE GroupThousands(_)
GroupThousands(ds) ==
    IF Len(ds) <= 3 THEN ds
    ELSE GroupThousands(SubSeq(ds, 1, Len(ds) - 3)) \o <<".">> \o SubSeq(ds, Len(ds) - 2, Len(ds))

\* Intl.NumberFormat('es-AR', {style: 'currency', currency: 'ARS',
\* minimumFractionDigits: 0}).format(x) for x >= 0: at most two fraction
\* digits, rounded half up, trailing zeros dropped
formatPrice(x) ==
    IF x.nan THEN <<"$", " ", "NaN">>
    ELSE LET cents == (x.n * 200 + x.d) \div (2 * x.d)
             frac  == cents % 100
             fdig  == IF frac = 0 THEN <<>>
                      ELSE IF frac % 10 = 0 THEN <<",">> \o NatToString(frac \div 10)
                      ELSE <<",">> \o (IF frac < 10 THEN <<"0">> ELSE <<>>) \o NatToString(frac)
         IN  <<"$", " ">> \o GroupThousands(NatToString(cents \div 100)) \o fdig

\* the synchronous head of drawProduct: canvas.width/height reset the bitmap,
\* then the white background
BackgroundOps == <<Rect("background", "#FFFFFF", 0, 0, WIDTH, HEIGHT)>>

\* 2. Product Image: img is [ok, width, height]; the sizes of the model make
\* the divisions exact
ImageOps(img) ==
    IF img.ok
    THEN LET padding == 20
             maxImgH == safeAreaHeight - 140
             maxImgW == WIDTH - (padding * 2)
             byW     == maxImgW * img.height <= maxImgH * img.width
             drawW   == IF byW THEN maxImgW ELSE (img.width * maxImgH) \div img.height
             drawH   == IF byW THEN (img.height * maxImgW) \div img.width ELSE maxImgH
         IN  <<Op("image", "drawImage", "", (WIDTH - drawW) \div 2, safeAreaTop + 40, drawW, drawH, <<>>)>>
    ELSE <<Rect("placeholder", "#f5f5f5", 100, safeAreaTop, 800, safeAreaHeight),
           Text("placeholder", "#ccc", <<"Sin Imagen">>, 500, 500)>>

\* product.bankPromo || customBankText (an absent bankPromo is the empty string)
PromoText(product, cfg) == IF product.bankPromo # <<>> THEN product.bankPromo ELSE cfg.customBankText

\* BankBadge without the test of promoText: the variant claim C8 is tested
\* against
BankBadgeAlways(product, cfg, leftBadgeY) ==
    [ops |-> <<Round("bankBadge", debitBadge, 30, leftBadgeY, 280, 80),
               Text("bankBadge.headline", "white", <<"10% OFF">>, 30 + 140, leftBadgeY + 40),
               Text("bankBadge.second", "white", <<"1 PAGO Debito">>, 30 + 140, leftBadgeY + 65)>>,
     y |-> leftBadgeY + 90]

\* 3. Badges: the operations painted and the final slot offsets of both sides
BankBadge(product, cfg, leftBadgeY) ==
    IF PromoText(product, cfg) # <<>>
    THEN [ops |-> <<Round("bankBadge", debitBadge, 30, leftBadgeY, 280, 80),
                    Text("bankBadge.headline", "white", <<"10% OFF">>, 30 + 140, leftBadgeY + 40),
                    Text("bankBadge.second", "white", <<"1 PAGO Debito">>, 30 + 140, leftBadgeY + 65)>>,
          y |-> leftBadgeY + 90]
    ELSE [ops |-> <<>>, y |-> leftBadgeY]

\* InstallmentsBadge with installments >= 1 for installments > 1: the variant
\* claim C7 is tested against
InstallmentsBadgeFromOne(product, rightBadgeY) ==
    IF NumGe(product.installments, 1)
    THEN LET badgeW == 260
             badgeH == 70
             badgeX == WIDTH - badgeW - 30
         IN  [ops |-> <<Round("installmentsBadge", orangeBadge, badgeX, rightBadgeY, badgeW, badgeH),
                        Text("installmentsBadge.count", "white", NumToString(product.installments),
                             badgeX + 15, rightBadgeY + (badgeH \div 2) + 2),
                        Text("installmentsBadge.sin", "white", <<"SIN">>, badgeX + 80, rightBadgeY + 25),
                        Text("installmentsBadge.interes", "white", <<"INTERES">>, badgeX + 80, rightBadgeY + 48)>>,
              y |-> rightBadgeY + 80]
    ELSE [ops |-> <<>>, y |-> rightBadgeY]

InstallmentsBadge(product, rightBadgeY) ==
    IF NumGt(product.installments, 1)
    THEN LET badgeW == 260
             badgeH == 70
             badgeX == WIDTH - badgeW - 30
         IN  [ops |-> <<Round("installmentsBadge", orangeBadge, badgeX, rightBadgeY, badgeW, badgeH),
                        Text("installmentsBadge.count", "white", NumToString(product.installments),
                             badgeX + 15, rightBadgeY + (badgeH \div 2) + 2),
                        Text("installmentsBadge.sin", "white", <<"SIN">>, badgeX + 80, rightBadgeY + 25),
                        Text("installmentsBadge.interes", "white", <<"INTERES">>, badgeX + 80, rightBadgeY + 48)>>,
              y |-> rightBadgeY + 80]
    ELSE [ops |-> <<>>, y |-> rightBadgeY]

\* PickupBadge painted at the first slot whatever rightBadgeY is: the
\* variant claim C13 is tested against
PickupBadgeAtFirstSlot(product, rightBadgeY) ==
    IF product.pickup
    THEN LET badgeW == 260
             badgeH == 40
             badgeX == WIDTH - badgeW - 30
         IN  <<Round("pickupBadge", pickupBadge, badgeX, safeAreaTop + 20, badgeW, badgeH),
               Text("pickupBadge.label", "#004488", <<"RETIRO GRATIS!">>,
                    badgeX + (badgeW \div 2), safeAreaTop + 20 + (badgeH \div 2) + 2)>>
    ELSE <<>>

PickupBadge(product, rightBadgeY) ==
    IF product.pickup
    THEN LET badgeW == 260
             badgeH == 40
             badgeX == WIDTH - badgeW - 30
         IN  <<Round("pickupBadge", pickupBadge, badgeX, rightBadgeY, badgeW, badgeH),
               Text("pickupBadge.label", "#004488", <<"RETIRO GRATIS!">>,
                    badgeX + (badgeW \div 2), rightBadgeY + (badgeH \div 2) + 2)>>
    ELSE <<>>

Badges(product, cfg) ==
    IF cfg.showBadges
    THEN LET badgeY == safeAreaTop + 20
             bank   == BankBadge(product, cfg, badgeY)
             inst   == InstallmentsBadge(product, badgeY)
         IN  [ops |-> bank.ops \o inst.ops \o PickupBadge(product, inst.y),
              leftBadgeY |-> bank.y, rightBadgeY |-> inst.y]
    ELSE [ops |-> <<>>, leftBadgeY |-> safeAreaTop + 20, rightBadgeY |-> safeAreaTop + 20]

\* 4. Price
PriceOps(product, cfg) ==
    IF cfg.showPrice
    THEN LET priceY == HEIGHT - frameBottom - 30
         IN  <<Text("price", priceColor, formatPrice(product.price), WIDTH \div 2, priceY)>>
             \o (IF NumGt(product.installments, 1)
                 THEN <<Text("installmentLine", orangeBadge,
                             <<"Hasta ">> \o NumToString(product.installments) \o <<"x ">>
                               \o formatPrice(NumDiv(product.price, product.installments))
                               \o <<" cuotas sin interes">>,
                             WIDTH \div 2, priceY - 110)>>
                 ELSE <<>>)
    ELSE <<>>

\* 5. Frame
FrameOps(cfg) ==
    <<Rect("frame.top", cfg.frameColor, 0, 0, WIDTH, frameTop),
      Rect("frame.bottom", cfg.frameColor, 0, HEIGHT - frameBottom, WIDTH, frameBottom),
      Rect("frame.left", cfg.frameColor, 0, 0, 30, HEIGHT),
      Rect("frame.right", cfg.frameColor, WIDTH - 30, 0, 30, HEIGHT),
      Text("frame.logo", frameText, <<"PARDO">>, WIDTH \div 2, frameTop \div 2),
      Text("frame.url", frameText, <<"WWW.PARDO.COM.AR">>, WIDTH \div 2, HEIGHT - (frameBottom \div 2))>>

\* everything drawProduct paints once the image has loaded or failed
DrawLayers(product, cfg, img) ==
    ImageOps(img) \o Badges(product, cfg).ops \o PriceOps(product, cfg) \o FrameOps(cfg)

(***************************************************************************)
(* The App component: its state, the handlers of its controls and the      *)
(* continuations of its asynchronous functions.                            *)
(***************************************************************************)
VARIABLES
    products,         \* useState<Product[]>
    selectedProduct,  \* <<>> for null, <<p>> for the product p
    processing,
    generatedCount,
    clusterInput,
    loadingData,
    errorMsg,         \* Null or a message
    showPrice,
    showBadges,
    customBankText,
    loads,            \* the calls of fetchClusterData, in the order they started
    batch,            \* the call of runBatchProcess
    renders,          \* the calls of drawProduct that await their image
    canvas,           \* the paint operations on the canvas since its last reset
    downloads,        \* the files link.click() has saved
    gestures,         \* user gestures so far
    feed,             \* normaliser harness: the document under test
    normalized        \* normaliser harness: what ProcessFeed made of it

vars == <<products, selectedProduct, processing, generatedCount, clusterInput, loadingData,
          errorMsg, showPrice, showBadges, customBankText, loads, batch, renders,
          canvas, downloads, gestures, feed, normalized>>

appVars == <<products, selectedProduct, processing, generatedCount, clusterInput, loadingData,
             errorMsg, showPrice, showBadges, customBankText, loads, batch, renders,
             canvas, downloads, gestures>>

Null == "null"

DEMO_PRODUCT ==
    [ref          |-> [load |-> 0, idx |-> 0],
     id           |-> <<"demo-lg-86">>,
     name         |-> <<"Smart TV 86 UHD 4K Qned LG 86QNED85SQA">>,
     price        |-> IntNum(6199999),
     listPrice    |-> IntNum(0),
     imageUrl     |-> <<"https://images.fravega.com/f500/1d04400f0896024927500589d8544d65.jpg">>,
     installments |-> IntNum(12),
     freeShipping |-> FALSE,
     sku          |-> <<"86QNED85SQA">>,
     pickup       |-> TRUE,
     bankPromo    |-> <<"10% OFF 1 PAGO DEBITO">>]

DefaultClusterInput == <<"https://www.pardo.com.ar/XMLData/cluster1629.xml">>
DefaultBankText == <<"10% OFF 1 PAGO Debito">>

\* getXmlUrl: digits only become the cluster URL, anything else is used as is
getXmlUrl(input) ==
    LET trimmed == Trim(input)
    IN  IF trimmed # <<>> /\ \A i \in 1..Len(trimmed) : trimmed[i] \in Digits
        THEN <<"https://www.pardo.com.ar/XMLData/cluster">> \o trimmed \o <<".xml">>
        ELSE trimmed

\* the configuration a closure of drawProduct reads
Config(badges, price, bankText) ==
    [frameColor |-> pardoBlue, showPrice |-> price, showBadges |-> badges, customBankText |-> bankText]
CurrentConfig == Config(showBadges, showPrice, customBankText)

(***************************************************************************)
(* drawProduct, up to its await: the canvas is reset and the background    *)
(* painted, then the call waits for img.onload / img.onerror.              *)
(***************************************************************************)
CanvasMounted == TRUE

\* The canvas holds, since its last reset, one entry per stretch of painting:
\* the call of drawProduct that painted (by), which of its two stretches
\* (the background before the await, the content after it) and what the
\* content was painted from.  CanvasOps gives the paint operations.
NoImage == [ok |-> FALSE, width |-> 0, height |-> 0]
Painted(rd, stage, img) ==
    [by |-> rd.rid, stage |-> stage, product |-> rd.product, cfg |-> rd.cfg, img |-> img]

StageOps(e) ==
    IF e.stage = "background" THEN BackgroundOps ELSE DrawLayers(e.product, e.cfg, e.img)

RECURSIVE CanvasOps(_)
CanvasOps(cv) ==
    IF cv = <<>> THEN <<>>
    ELSE [i \in 1..Len(StageOps(Head(cv))) |-> [by |-> Head(cv).by, op |-> StageOps(Head(cv))[i]]]
         \o CanvasOps(Tail(cv))

\* a call of drawProduct is told from the other calls in progress by a
\* number (rid): the least one that no call in progress has
FreeRid == CHOOSE n \in 1..(Len(renders) + 1) :
               /\ \A j \in 1..Len(renders) : renders[j].rid # n
               /\ \A m \in 1..(n - 1) : \E j \in 1..Len(renders) : renders[j].rid = m

NewRender(product, download, cfg, by) ==
    [rid |-> FreeRid, product |-> product, download |-> download, cfg |-> cfg, by |-> by]

StartDraw(product, download, cfg, by) ==
    /\ renders' = Append(renders, NewRender(product, download, cfg, by))
    /\ canvas' = <<Painted(NewRender(product, download, cfg, by), "background", NoImage)>>

\* the useEffect on [selectedProduct, frameColor, showPrice, showBadges,
\* customBankText]: after an update that changes one of them it calls
\* drawProduct(selectedProduct, canvas) unless selectedProduct is null
EffectRuns(sel, cfg) == (sel # selectedProduct \/ cfg # CurrentConfig) /\ CanvasMounted /\ sel # <<>>

Effect(sel, cfg) ==
    IF EffectRuns(sel, cfg)
    THEN StartDraw(sel[1], FALSE, cfg, "effect")
    ELSE UNCHANGED <<renders, canvas>>

Gesture == gestures < MaxGestures /\ gestures' = gestures + 1

(***************************************************************************)
(* fetchClusterData                                                        *)
(***************************************************************************)
NoDom == [parsererror |-> FALSE, item |-> <<>>, entry |-> <<>>, product |-> <<>>]
NoText == [text |-> <<>>, dom |-> NoDom]

\* what a call remembers of the latest response: how the request ended, and
\* for a body whether it was empty and whether IsHtml holds of it
NoResponse == [kind |-> "none", empty |-> TRUE, html |-> FALSE]
Summary(out) == [kind |-> out.kind, empty |-> out.body.text = <<>>, html |-> IsHtml(out.body.text)]

\* a call that has returned: its locals are gone; thrown is the message of
\* the Error its catch block got ("" when it got none), last the response
\* that ended its loop
Returned(ld, thrown) ==
    [pc |-> IF thrown = "" THEN "loaded" ELSE "failed", k |-> 0, targetUrl |-> ld.targetUrl,
     xmlText |-> NoText, successSource |-> "", lastError |-> "", requested |-> <<>>,
     last |-> ld.last, thrown |-> thrown]

\* the call up to its first await: the state resets and the first request
fetchClusterData ==
    LET targetUrl == getXmlUrl(clusterInput)
    IN  /\ targetUrl # <<>>
        /\ loadingData' = TRUE
        /\ errorMsg' = Null
        /\ products' = <<>>
        /\ selectedProduct' = <<>>
        /\ loads' = Append(loads, [pc |-> "fetch", k |-> 1, targetUrl |-> targetUrl,
                                   xmlText |-> NoText, successSource |-> "", lastError |-> "",
                                   requested |-> <<StrategyNames[1]>>, last |-> NoResponse,
                                   thrown |-> ""])
        /\ Effect(<<>>, CurrentConfig)
        /\ UNCHANGED <<processing, generatedCount, clusterInput, showPrice, showBadges,
                       customBankText, batch, downloads, feed, normalized>>

\* onKeyDown of the input: Enter calls fetchClusterData
PressEnter == Gesture /\ fetchClusterData

\* onClick of the search button, disabled while loadingData
ClickSearch == Gesture /\ ~loadingData /\ fetchClusterData

\* the body of one iteration of the strategies loop, given how its request
\* ended: the new xmlText, successSource and lastError
AfterResponse(ld, out) ==
    IF out.kind = "ok"
    THEN [ld EXCEPT !.xmlText = out.body, !.successSource = StrategyNames[ld.k]]
    ELSE IF out.kind \in {"throw", "badjson"}
    THEN [ld EXCEPT !.lastError = out.kind]
    ELSE ld

\* LoopContinues without 'if (xmlText) break': the variant claim C10 is
\* tested against
LoopContinuesNoBreak(ld) == ld.k < NumStrategies

\* the head of the next iteration: another strategy is left and the
\* 'if (xmlText) break' does not leave the loop
LoopContinues(ld) == ld.k < NumStrategies /\ ld.xmlText.text = <<>>

\* product elements of the feeds the transport returns in the model
ItemA ==
    [els |-> ("title" :> <<"T", "V">>) @@ ("g:id" :> <<"a", "1">>) @@ ("g:price" :> <<"9", "0", "0", " ", "A", "R", "S">>)
             @@ ("g:image_link" :> <<"h", "/", "a", "?", "w">>) @@ ("g:installment" :> <<"1", "2">>),
     months |-> ("g:months" :> <<"1", "2">>)]
ItemB ==
    [els |-> ("name" :> <<"P", "C">>) @@ ("sku" :> <<"b", "2">>) @@ ("price" :> <<"5", "0">>)
             @@ ("sale_price" :> <<"4", "0", ",", "5">>),
     months |-> <<>>]
ItemBlank == [els |-> ("description" :> <<"x">>), months |-> <<>>]

HtmlBody == [text |-> <<"\n", "<!DOCTYPE html", "<html", "<body">>, dom |-> [NoDom EXCEPT !.parsererror = TRUE]]
BrokenBody == [text |-> <<"<rss", "<item">>, dom |-> [NoDom EXCEPT !.parsererror = TRUE]]
NoItemsBody == [text |-> <<"<rss", "<channel">>, dom |-> NoDom]
BlankItemsBody == [text |-> <<"<rss", "<product">>, dom |-> [NoDom EXCEPT !.product = <<ItemBlank>>]]
FeedBody == [text |-> <<"<rss", "<item", "<item">>, dom |-> [NoDom EXCEPT !.item = <<ItemA, ItemB>>]]

Bodies == {NoText, HtmlBody, BrokenBody, NoItemsBody, BlankItemsBody, FeedBody}

\* how the request of strategy k can end: fetch rejects, the response is not
\* ok, res.json() rejects (wrapped strategy), or a body (for the wrapped
\* strategy the contents field of the envelope, empty when it is null)
Outcomes(k) ==
    {[kind |-> "throw", body |-> NoText], [kind |-> "notok", body |-> NoText]}
    \cup (IF isWrapped(k) THEN {[kind |-> "badjson", body |-> NoText]} ELSE {})
    \cup {[kind |-> "ok", body |-> b] : b \in Bodies}

RandomIds == {<<"0", ".", "r", "1">>, <<"0", ".", "r", "2">>}

\* the continuation of call l when the request of its strategy k ends with
\* out: the rest of the iteration, then either the next request or the code
\* after the loop, up to the finally block
Respond(l, out, rnds) ==
    /\ loads[l].pc = "fetch"
    /\ \E ld \in {[AfterResponse(loads[l], out) EXCEPT !.last = Summary(out)]} :
          IF LoopContinues(ld)
          THEN /\ loads' = [loads EXCEPT ![l] = [ld EXCEPT !.k = @ + 1,
                                                              !.requested = Append(@, StrategyNames[ld.k + 1])]]
               /\ UNCHANGED <<products, selectedProduct, errorMsg, loadingData, renders, canvas>>
          ELSE \E r \in {ProcessFeed(ld.xmlText, ld.successSource, rnds, l)} :
                  /\ loads' = [loads EXCEPT ![l] = Returned(ld, r.thrown)]
                  /\ products' = IF r.setProducts THEN r.products ELSE products
                  /\ selectedProduct' = IF r.thrown = "" THEN <<r.products[1]>> ELSE selectedProduct
                  /\ errorMsg' = IF r.thrown # "" THEN r.thrown ELSE errorMsg
                  /\ loadingData' = FALSE
                  /\ Effect(IF r.thrown = "" THEN <<r.products[1]>> ELSE selectedProduct, CurrentConfig)
    /\ UNCHANGED <<processing, generatedCount, clusterInput, showPrice, showBadges,
                   customBankText, batch, downloads, gestures, feed, normalized>>

Response ==
    \E l \in {j \in 1..Len(loads) : loads[j].pc = "fetch"} :
        \E out \in Outcomes(loads[l].k) :
            \E rnds \in [NeedsRandomId(FindItems(out.body.dom)) -> RandomIds] :
                Respond(l, out, rnds)

(***************************************************************************)
(* drawProduct after its await, and runBatchProcess around it              *)
(***************************************************************************)
\* the picture behind an image URL: the demo picture is square, the others
\* of the model are tall
ImageAt(url) ==
    IF url = DEMO_PRODUCT.imageUrl THEN [ok |-> TRUE, width |-> 1000, height |-> 1000]
    ELSE [ok |-> TRUE, width |-> 480, height |-> 1200]

\* ImageResults without 'img.onerror = () => reject(...)': a load that fails
\* never ends; the variant claim C14 is tested against
ImageResultsOnLoadOnly(product) ==
    IF product.imageUrl = <<>> THEN {} ELSE {ImageAt(product.imageUrl)}

\* how loading product.imageUrl can end: onerror (the only end for an empty
\* URL), or onload with the picture
ImageResults(product) ==
    {NoImage} \cup (IF product.imageUrl = <<>> THEN {} ELSE {ImageAt(product.imageUrl)})

Remove(seq, j) == SubSeq(seq, 1, j - 1) \o SubSeq(seq, j + 1, Len(seq))

\* 6. Download Trigger: the file link.click() saves, with the canvas as
\* canvas.toDataURL reads it; own tells the stretches the saving call painted
\* from those another call painted
Download(rd, cv) ==
    [name  |-> <<"pardo_">> \o rd.product.sku \o <<".jpg">>,
     by    |-> rd.by,
     image |-> [i \in 1..Len(cv) |->
                  [own |-> cv[i].by = rd.rid, stage |-> cv[i].stage, product |-> cv[i].product,
                   cfg |-> cv[i].cfg, img |-> cv[i].img]]]

NoBatch == [pc |-> "idle", i |-> 0, products |-> <<>>, cfg |-> Config(TRUE, TRUE, <<>>), log |-> <<>>]

\* the image of the j-th waiting call of drawProduct loads or fails: the
\* call paints its layers and, with download set, saves the canvas; a call
\* made by runBatchProcess then returns into the loop, which counts the
\* product and starts the pacing delay
ImageSettled(j, img) ==
    LET rd      == renders[j]
        painted == Append(canvas, Painted(rd, "content", img))
    IN  /\ canvas' = painted
        /\ renders' = Remove(renders, j)
        /\ downloads' = IF rd.download THEN Append(downloads, Download(rd, painted)) ELSE downloads
        /\ IF rd.by = "batch"
           THEN /\ generatedCount' = generatedCount + 1
                /\ batch' = [batch EXCEPT !.pc = "pace",
                                          !.log = Append(@, <<"export", batch.i>>)]
           ELSE UNCHANGED <<generatedCount, batch>>
        /\ UNCHANGED <<products, selectedProduct, processing, clusterInput, loadingData, errorMsg,
                       showPrice, showBadges, customBankText, loads, gestures, feed, normalized>>

ImageSettles ==
    \E j \in 1..Len(renders) : \E img \in ImageResults(renders[j].product) : ImageSettled(j, img)

\* BatchLoopHead with the loop condition i < products.length - 1: the variant
\* claim C4 is tested against
BatchLoopHeadSkipsLast(b, i) ==
    IF i < Len(b.products)
    THEN /\ selectedProduct' = <<b.products[i]>>
         /\ Effect(<<b.products[i]>>, CurrentConfig)
         /\ batch' = [b EXCEPT !.pc = "settle", !.i = i,
                               !.log = Append(@, <<"select", i>>)]
         /\ processing' = TRUE
    ELSE /\ processing' = FALSE
         /\ batch' = [b EXCEPT !.pc = "finished", !.i = i]
         /\ UNCHANGED <<selectedProduct, renders, canvas>>

\* the loop of runBatchProcess at its head for index i (from 1): either
\* setSelectedProduct(products[i]) and the settle delay, or the end;
\* processing, set at the start of the call, stays true until the end
BatchLoopHead(b, i) ==
    IF i <= Len(b.products)
    THEN /\ selectedProduct' = <<b.products[i]>>
         /\ Effect(<<b.products[i]>>, CurrentConfig)
         /\ batch' = [b EXCEPT !.pc = "settle", !.i = i,
                               !.log = Append(@, <<"select", i>>)]
         /\ processing' = TRUE
    ELSE /\ processing' = FALSE
         /\ batch' = [b EXCEPT !.pc = "finished", !.i = i]
         /\ UNCHANGED <<selectedProduct, renders, canvas>>

\* onClick of 'Procesar Todo Auto', disabled while processing or without
\* products: runBatchProcess up to its first await
ClickBatch ==
    /\ Gesture
    /\ ~processing /\ products # <<>>
    /\ CanvasMounted
    /\ generatedCount' = 0
    /\ \E b \in {[NoBatch EXCEPT !.products = products, !.cfg = CurrentConfig]} :
          BatchLoopHead(b, 1)
    /\ UNCHANGED <<products, clusterInput, loadingData, errorMsg, showPrice, showBadges,
                   customBankText, loads, downloads, feed, normalized>>

\* the settle delay (600 ms) ends: drawProduct(p, canvas, true) is called
BatchSettled ==
    /\ batch.pc = "settle"
    /\ StartDraw(batch.products[batch.i], TRUE, batch.cfg, "batch")
    /\ batch' = [batch EXCEPT !.pc = "draw",
                              !.log = @ \o <<<<"settled", batch.i>>, <<"render", batch.i>>>>]
    /\ UNCHANGED <<products, selectedProduct, processing, generatedCount, clusterInput,
                   loadingData, errorMsg, showPrice, showBadges, customBankText, loads,
                   downloads, gestures, feed, normalized>>

\* the pacing delay (500 ms) ends: i++ and the loop head
BatchPaced ==
    /\ batch.pc = "pace"
    /\ BatchLoopHead([batch EXCEPT !.log = Append(@, <<"paced", batch.i>>)],
                     batch.i + 1)
    /\ UNCHANGED <<products, generatedCount, clusterInput, loadingData, errorMsg, showPrice,
                   showBadges, customBankText, loads, downloads, gestures, feed, normalized>>

(***************************************************************************)
(* The other controls                                                      *)
(***************************************************************************)
ClusterInputs == {DefaultClusterInput, <<"1", "6", "2", "9">>, <<" ">>}
BankTexts == {DefaultBankText, <<>>}

\* onChange of the cluster input
EditClusterInput ==
    /\ Gesture
    /\ \E v \in ClusterInputs \ {clusterInput} : clusterInput' = v
    /\ UNCHANGED <<products, selectedProduct, processing, generatedCount, loadingData, errorMsg,
                   showPrice, showBadges, customBankText, loads, batch, renders, canvas,
                   downloads, feed, normalized>>

\* onClick of 'Cargar Demo'
ClickDemo ==
    /\ Gesture
    /\ selectedProduct' = <<DEMO_PRODUCT>>
    /\ products' = <<DEMO_PRODUCT>>
    /\ Effect(<<DEMO_PRODUCT>>, CurrentConfig)
    /\ UNCHANGED <<processing, generatedCount, clusterInput, loadingData, errorMsg, showPrice,
                   showBadges, customBankText, loads, batch, downloads, feed, normalized>>

\* onClick of an entry of the product list
ClickProduct ==
    /\ Gesture
    /\ \E i \in 1..Len(products) :
          /\ selectedProduct' = <<products[i]>>
          /\ Effect(<<products[i]>>, CurrentConfig)
    /\ UNCHANGED <<products, processing, generatedCount, clusterInput, loadingData, errorMsg,
                   showPrice, showBadges, customBankText, loads, batch, downloads, feed, normalized>>

\* onClick of 'Descargar Actual', rendered only with a selected product
ClickDownload ==
    /\ Gesture
    /\ selectedProduct # <<>>
    /\ StartDraw(selectedProduct[1], TRUE, CurrentConfig, "button")
    /\ UNCHANGED <<products, selectedProduct, processing, generatedCount, clusterInput,
                   loadingData, errorMsg, showPrice, showBadges, customBankText, loads, batch,
                   downloads, feed, normalized>>

\* onChange of the 'Mostrar Cucardas' checkbox
ToggleBadges ==
    /\ Gesture
    /\ showBadges' = ~showBadges
    /\ Effect(selectedProduct, Config(~showBadges, showPrice, customBankText))
    /\ UNCHANGED <<products, selectedProduct, processing, generatedCount, clusterInput,
                   loadingData, errorMsg, showPrice, customBankText, loads, batch, downloads,
                   feed, normalized>>

\* onChange of the 'Sobreimprimir Precio' checkbox
TogglePrice ==
    /\ Gesture
    /\ showPrice' = ~showPrice
    /\ Effect(selectedProduct, Config(showBadges, ~showPrice, customBankText))
    /\ UNCHANGED <<products, selectedProduct, processing, generatedCount, clusterInput,
                   loadingData, errorMsg, showBadges, customBankText, loads, batch, downloads,
                   feed, normalized>>

\* onChange of the 'Texto Promocion Banco' input
EditBankText ==
    /\ Gesture
    /\ \E t \in BankTexts \ {customBankText} :
          /\ customBankText' = t
          /\ Effect(selectedProduct, Config(showBadges, showPrice, t))
    /\ UNCHANGED <<products, selectedProduct, processing, generatedCount, clusterInput,
                   loadingData, errorMsg, showPrice, showBadges, loads, batch, downloads,
                   feed, normalized>>

(***************************************************************************)
(* The application after its first render: the state of the useState       *)
(* initialisers, and the effect's first call of drawProduct(DEMO_PRODUCT)  *)
(* waiting for its image.                                                  *)
(***************************************************************************)
NotNormalized == [done |-> FALSE, mapped |-> <<>>, thrown |-> "", setProducts |-> FALSE, products |-> <<>>]

HarnessInit == feed = NoText /\ normalized = NotNormalized

Mounted(sel, cfg) ==
    /\ renders = IF sel = <<>> THEN <<>>
                 ELSE <<[rid |-> 1, product |-> sel[1], download |-> FALSE, cfg |-> cfg, by |-> "effect"]>>
    /\ canvas = IF sel = <<>> THEN <<>>
                ELSE <<[by |-> 1, stage |-> "background", product |-> sel[1], cfg |-> cfg, img |-> NoImage]>>

Init ==
    /\ products = <<DEMO_PRODUCT>>
    /\ selectedProduct = <<DEMO_PRODUCT>>
    /\ processing = FALSE
    /\ generatedCount = 0
    /\ clusterInput = DefaultClusterInput
    /\ loadingData = FALSE
    /\ errorMsg = Null
    /\ showPrice = TRUE
    /\ showBadges = TRUE
    /\ customBankText = DefaultBankText
    /\ loads = <<>>
    /\ batch = NoBatch
    /\ Mounted(<<DEMO_PRODUCT>>, Config(TRUE, TRUE, DefaultBankText))
    /\ downloads = <<>>
    /\ gestures = 0
    /\ HarnessInit

Next ==
    \/ PressEnter
    \/ ClickSearch
    \/ Response
    \/ ImageSettles
    \/ ClickBatch
    \/ BatchSettled
    \/ BatchPaced
    \/ EditClusterInput
    \/ ClickDemo
    \/ ClickProduct
    \/ ClickDownload
    \/ ToggleBadges
    \/ TogglePrice
    \/ EditBankText

Spec == Init /\ [][Next]_vars

\* What the awaits of the code wait for comes: a request of a feed load in
\* flight ends (fetch resolves or rejects), an image load ends (onload or
\* onerror), and the timers of the two delays of runBatchProcess fire.
Scheduling ==
    /\ WF_vars(Response)
    /\ WF_vars(ImageSettles)
    /\ WF_vars(BatchSettled)
    /\ WF_vars(BatchPaced)

SpecLive == Init /\ [][Next]_vars /\ Scheduling

(***************************************************************************)
(* The layout engine on its own: the application mounted with any product  *)
(* of the Product type selected and any configuration, then drawProduct    *)
(* through the effect and through 'Descargar Actual'.                      *)
(***************************************************************************)
TestProducts ==
    {[DEMO_PRODUCT EXCEPT !.price = pr, !.installments = n, !.pickup = pk, !.bankPromo = bp,
                          !.imageUrl = url] :
        pr \in {IntNum(6199999), NaN},
        n \in {NaN, IntNum(0), IntNum(1), IntNum(12)},
        pk \in BOOLEAN,
        bp \in {<<>>, <<"PROMO BANCO">>},
        url \in {<<"https://wsrv.nl/?url=">>}}

InitDraw ==
    \E p \in TestProducts :
        \E badges \in BOOLEAN, price \in BOOLEAN, bankText \in BankTexts :
            /\ products = <<p>>
            /\ selectedProduct = <<p>>
            /\ processing = FALSE
            /\ generatedCount = 0
            /\ clusterInput = DefaultClusterInput
            /\ loadingData = FALSE
            /\ errorMsg = Null
            /\ showPrice = price
            /\ showBadges = badges
            /\ customBankText = bankText
            /\ loads = <<>>
            /\ batch = NoBatch
            /\ Mounted(<<p>>, Config(badges, price, bankText))
            /\ downloads = <<>>
            /\ gestures = 0
            /\ HarnessInit

NextDraw == ImageSettles \/ ClickDownload

SpecDraw == InitDraw /\ [][NextDraw]_vars

(***************************************************************************)
(* The normaliser on its own: the code of fetchClusterData after the       *)
(* strategies loop, applied to a document.                                 *)
(***************************************************************************)
Texts(chars, n) == UNION {[1..k -> chars] : k \in 0..n}

\* the function with the empty domain: an element with no such children
NoEls == [t \in {} |-> <<>>]

\* els without the names whose element is left out (marked by Absent)
Absent == <<"(absent)">>
Present(els) == [t \in {u \in DOMAIN els : els[u] # Absent} |-> els[t]]

PriceTexts == Texts({"0", "5", ",", ".", "A"}, MaxTextLen) \cup {Absent}
InstTexts == Texts({"0", "1", "2", "x"}, MaxTextLen)

PriceItems ==
    {[els |-> Present((pre \o "title" :> title) @@ ("id" :> <<"i", "d">>)
                      @@ (pre \o "price" :> price) @@ (pre \o "sale_price" :> sale)),
      months |-> NoEls] :
        pre \in {"", "g:"}, title \in {Absent, <<"T">>}, price \in PriceTexts, sale \in PriceTexts}

InstallmentItems ==
    {[els |-> ("title" :> <<"T">>) @@ ("price" :> <<"5">>) @@ (node :> text),
      months |-> (child :> text)] :
        node \in {"installment", "g:installment"}, child \in {"months", "g:months"}, text \in InstTexts}
    \cup {[els |-> ("title" :> <<"T">>) @@ ("price" :> <<"5">>) @@ (node :> text), months |-> NoEls] :
            node \in {"installment", "g:installment", "installments", "g:installments"},
            text \in InstTexts}

ItemNaN == [els |-> ("title" :> <<"T">>) @@ ("price" :> <<"A", "R", "S">>), months |-> NoEls]
ItemNamelessNaN == [els |-> ("price" :> <<"A", "R", "S">>), months |-> NoEls]
PairItems == {ItemA, ItemB, ItemBlank, ItemNaN, ItemNamelessNaN}

Document(tag, items) ==
    [text |-> <<"<rss">>, dom |-> [NoDom EXCEPT ![tag] = items]]

TestFeeds ==
    {Document("item", <<it>>) : it \in PriceItems \cup InstallmentItems}
    \cup {Document(tag, <<a, b>>) : tag \in {"item", "entry", "product"}, a \in PairItems, b \in PairItems}
    \cup {HtmlBody, BrokenBody, NoItemsBody}

PickFeed ==
    /\ feed = NoText
    /\ feed' \in TestFeeds
    /\ UNCHANGED <<appVars, normalized>>

NormalizeFeed ==
    /\ feed # NoText
    /\ ~normalized.done
    /\ \E rnds \in [NeedsRandomId(FindItems(feed.dom)) -> RandomIds] :
          \E r \in {ProcessFeed(feed, StrategyNames[1], rnds, 1)} :
              normalized' = [done |-> TRUE,
                             mapped |-> IF IsHtml(feed.text) \/ feed.dom.parsererror THEN <<>>
                                        ELSE MappedProducts(FindItems(feed.dom), rnds, 1),
                             thrown |-> r.thrown, setProducts |-> r.setProducts,
                             products |-> r.products]
    /\ UNCHANGED <<appVars, feed>>

NextNorm == PickFeed \/ NormalizeFeed

SpecNorm == Init /\ [][NextNorm]_vars

(***************************************************************************)
(* Properties of fetchClusterData, checked under Spec.                     *)
(***************************************************************************)
\* the response summarised by last is a body that 'if (xmlText) break' lets
\* the loop go on after, or no body at all
FailedOrEmpty(last) ==
    \/ last.kind \in {"throw", "notok", "badjson"}
    \/ last.kind = "ok" /\ last.empty

\* C1: for every strategy that is not the last, a successful response whose
\* body starts with '<!doctype html' or contains '<html' is not accepted as
\* the feed document: the call goes on to request the next strategy.
C1_HtmlBodyTriesNextStrategy ==
    [][\A l \in 1..Len(loads) :
          (/\ loads[l].pc = "fetch"
           /\ loads[l].k < NumStrategies
           /\ loads'[l] # loads[l]
           /\ loads'[l].last.kind = "ok"
           /\ loads'[l].last.html)
          => /\ loads'[l].pc = "fetch"
             /\ loads'[l].k = loads[l].k + 1
             /\ loads'[l].requested = Append(loads[l].requested, StrategyNames[loads[l].k + 1])]_vars

\* C2 as stated: whenever a load ends in failure, at its completion the
\* collection is empty, nothing is selected, an error message is set and
\* loadingData is false.
C2_FailedLoadLeavesNothing ==
    [][\A l \in 1..Len(loads) :
          (loads[l].pc = "fetch" /\ loads'[l].pc = "failed")
          => /\ products' = <<>>
             /\ selectedProduct' = <<>>
             /\ errorMsg' # Null
             /\ loadingData' = FALSE]_vars

\* C2 as amended: whenever a load ends in failure, at its completion the
\* error message is that failure's message (never null) and loadingData is
\* false; the failed load leaves the selection as it was and the collection
\* as it was or empty, and none of the products it mapped is in either.
C2_FailedLoadWritesNoProduct ==
    [][\A l \in 1..Len(loads) :
          (loads[l].pc = "fetch" /\ loads'[l].pc = "failed")
          => /\ errorMsg' = loads'[l].thrown
             /\ errorMsg' # Null
             /\ loadingData' = FALSE
             /\ selectedProduct' = selectedProduct
             /\ products' = products \/ products' = <<>>
             /\ \A i \in 1..Len(products') : products'[i].ref.load # l
             /\ selectedProduct' # <<>> => selectedProduct'[1].ref.load # l]_vars

\* a load whose product elements were all filtered out has failed, and left
\* the collection empty, the selection null and its message on display
C2_Witness ==
    \E l \in 1..Len(loads) :
        /\ loads[l].pc = "failed"
        /\ loads[l].thrown = MsgNoValid
        /\ products = <<>>
        /\ selectedProduct = <<>>
        /\ errorMsg = MsgNoValid
        /\ ~loadingData

\* C3: at most one call of drawProduct is in progress in every reachable
\* state, so every exported image holds only what the exporting call painted.
C3_OneRenderAtATime ==
    /\ Len(renders) <= 1
    /\ \A d \in 1..Len(downloads) :
          \A i \in 1..Len(downloads[d].image) : downloads[d].image[i].own

\* C10: within one call the strategies are requested one at a time in the
\* order of StrategyNames, each at most once; the next one is requested only
\* after a thrown error, a non-ok response or an empty body; a thrown error
\* never ends the loop early; nothing is requested after a non-empty body.
C10_StrategiesInOrder ==
    [][/\ \A l \in 1..Len(loads) :
             LET a == loads[l]
                 b == loads'[l]
             IN  /\ a.pc # "fetch" => b = a
                 /\ (a.pc = "fetch" /\ b # a)
                    => /\ a.requested = SubSeq(StrategyNames, 1, a.k)
                       /\ IF b.pc = "fetch"
                          THEN /\ b.k = a.k + 1
                               /\ b.requested = Append(a.requested, StrategyNames[a.k + 1])
                               /\ FailedOrEmpty(b.last)
                          ELSE /\ b.requested = <<>>
                               /\ a.k = NumStrategies \/ (b.last.kind = "ok" /\ ~b.last.empty)
                       /\ (b.last.kind = "throw" /\ a.k < NumStrategies) => b.pc = "fetch"
                       /\ (b.last.kind = "ok" /\ ~b.last.empty) => b.pc # "fetch"
       /\ \A l \in (Len(loads) + 1)..Len(loads') :
             loads'[l].k = 1 /\ loads'[l].requested = <<StrategyNames[1]>>]_vars

\* the third strategy has been requested after the second one threw
C10_Witness ==
    \E l \in 1..Len(loads) :
        /\ loads[l].pc = "fetch"
        /\ loads[l].k = NumStrategies
        /\ loads[l].requested = StrategyNames
        /\ loads[l].last.kind = "throw"

(***************************************************************************)
(* Properties of runBatchProcess, checked under Spec.                      *)
(***************************************************************************)
StepNames == <<"select", "settled", "render", "export", "paced">>

\* the steps of a run over n products, in order
ExpectedLog(n) ==
    [j \in 1..(Len(StepNames) * n) |->
        <<StepNames[((j - 1) % Len(StepNames)) + 1], ((j - 1) \div Len(StepNames)) + 1>>]

IsBatchDownload(d) == d.by = "batch"

\* C4: a run over n products takes them in sequence order, each once, with
\* the steps select, settle delay, render, export, pacing delay; the render
\* of a product starts only after the export of the one before; a failed
\* image does not stop the loop; a finished run has generatedCount = n.
C4_BatchInOrder ==
    batch.pc # "idle" =>
        LET n        == Len(batch.products)
            log      == batch.log
            exported == Cardinality({j \in 1..Len(log) : log[j][1] = "export"})
            saved    == SelectSeq(downloads, IsBatchDownload)
        IN  /\ Len(log) <= Len(ExpectedLog(n))
            /\ log = SubSeq(ExpectedLog(n), 1, Len(log))
            /\ generatedCount = exported
            /\ Len(saved) >= exported
            /\ \A j \in 1..exported :
                  saved[Len(saved) - exported + j].name
                      = <<"pardo_">> \o batch.products[j].sku \o <<".jpg">>
            /\ Cardinality({j \in 1..Len(renders) : renders[j].by = "batch"})
                   = (IF batch.pc = "draw" THEN 1 ELSE 0)
            /\ processing = (batch.pc # "finished")
            /\ batch.pc = "finished" => (log = ExpectedLog(n) /\ generatedCount = n)

\* a run over two products has finished although the image of the first
\* one failed to load
C4_Witness ==
    /\ batch.pc = "finished"
    /\ Len(batch.products) = 2
    /\ generatedCount = 2
    /\ \E d \in 1..Len(downloads) :
          /\ downloads[d].by = "batch"
          /\ downloads[d].name = <<"pardo_">> \o batch.products[1].sku \o <<".jpg">>
          /\ \E i \in 1..Len(downloads[d].image) :
                /\ downloads[d].image[i].own
                /\ downloads[d].image[i].stage = "content"
                /\ ~downloads[d].image[i].img.ok

(***************************************************************************)
(* Properties of the normaliser, checked under SpecNorm.                   *)
(***************************************************************************)
\* C5: every document that yields a successful load yields a non-empty
\* product sequence in which every price is >= 0 and every installments is
\* >= 1, whatever the price text and the installment or months text.
C5_PricesAndInstallmentsInRange ==
    (normalized.done /\ normalized.thrown = "")
    => /\ normalized.setProducts
       /\ normalized.products # <<>>
       /\ \A i \in 1..Len(normalized.products) :
             /\ NumGe(normalized.products[i].price, 0)
             /\ NumGe(normalized.products[i].installments, 1)

\* C6: the mapped price is the parsed sale price when a sale-price field is
\* present and parses to a non-zero value, otherwise the parsed list price;
\* the mapped listPrice is the parsed list price when both fields are
\* present, otherwise 0.
C6_SalePriceUnlessZero ==
    normalized.done =>
        \A i \in 1..Len(normalized.mapped) :
            LET item == FindItems(feed.dom)[i]
                sale == getText(item, <<"sale_price", "g:sale_price">>)
                list == getText(item, <<"price", "g:price">>)
            IN  /\ normalized.mapped[i].price
                       = (IF sale # <<>> /\ parsePrice(sale) # IntNum(0)
                          THEN parsePrice(sale) ELSE parsePrice(list))
                /\ normalized.mapped[i].listPrice
                       = (IF sale # <<>> /\ list # <<>> THEN parsePrice(list) ELSE IntNum(0))

\* the text of the first of the flat installment fields that has one
FlatInstallmentText(item) ==
    FirstText(item, <<"installment", "g:installment", "installments", "g:installments">>)

\* C11: installments is the months value of a nested installment element
\* that has one; without a months sub-field it is the first run of digits
\* of a flat installment or installments text field, a flat <installment>
\* element included; it is 1 when there is neither.
C11_InstallmentResolution ==
    normalized.done =>
        \A i \in 1..Len(normalized.mapped) :
            LET item == FindItems(feed.dom)[i]
                flat == FlatInstallmentText(item)
            IN  normalized.mapped[i].installments
                    = (IF MonthsText(item) # <<>> THEN ParseInt(MonthsText(item))
                       ELSE IF FirstDigitRun(flat) # <<>> THEN ParseInt(FirstDigitRun(flat))
                       ELSE IntNum(1))

\* a record with a real name, or with a price that is not <= 0
HasUsableData(p) == ~(NumLe(p.price, 0) /\ p.name = SinNombre)

\* C12: a mapped record is dropped if and only if its price is <= 0 and its
\* name is the sentinel; every other record is kept, a price that is no
\* number included, in feed order; with no record left the load fails with
\* the empty-after-filtering error.
C12_DropsOnlyEmptyRecords ==
    (normalized.done /\ normalized.mapped # <<>>) =>
        LET kept == SelectSeq(normalized.mapped, HasUsableData)
        IN  /\ normalized.setProducts
            /\ normalized.products = kept
            /\ normalized.thrown = (IF kept = <<>> THEN MsgNoValid ELSE "")

(***************************************************************************)
(* Properties of the layout engine, checked under SpecDraw (C9: under      *)
(* Spec): a render is a call of drawProduct that has just painted its      *)
(* layers on the canvas.                                                   *)
(***************************************************************************)
RenderOf(e) == [product |-> e.product, cfg |-> e.cfg, img |-> e.img]

\* every call paints its layers as the last entry of the canvas, so every
\* render is in Renders in the state its painting leads to
Renders ==
    IF canvas # <<>> /\ canvas[Len(canvas)].stage = "content"
    THEN {RenderOf(canvas[Len(canvas)])}
    ELSE {}

\* the layers render e painted
RenderOps(e) == DrawLayers(e.product, e.cfg, e.img)

\* the operations among ops that belong to the layer part
PartOps(ops, part) == SelectSeq(ops, LAMBDA op : op.part = part)

\* product.bankPromo if non-empty, otherwise the configured default text
ResolvedPromo(e) == IF e.product.bankPromo # <<>> THEN e.product.bankPromo ELSE e.cfg.customBankText

BankBadgeParts == {"bankBadge", "bankBadge.headline", "bankBadge.second"}

\* C7 as stated: with installments = 1 neither the installment badge nor
\* the breakdown line is painted; with installments = 12 both are painted
\* and show 12, whatever the other fields and the configuration flags.
C7_InstallmentLayersWhateverTheFlags ==
    \A e \in Renders :
        LET badge == PartOps(RenderOps(e), "installmentsBadge")
            count == PartOps(RenderOps(e), "installmentsBadge.count")
            line  == PartOps(RenderOps(e), "installmentLine")
        IN  /\ e.product.installments = IntNum(1)
               => badge = <<>> /\ count = <<>> /\ line = <<>>
            /\ e.product.installments = IntNum(12)
               => /\ Len(badge) = 1
                  /\ Len(count) = 1
                  /\ count[1].text = <<"1", "2">>
                  /\ Len(line) = 1
                  /\ SubSeq(line[1].text, 1, 4) = <<"Hasta ", "1", "2", "x ">>

\* C7 as amended: with installments = 1 neither the installment badge nor
\* the breakdown line is painted; with installments = 12 the badge is
\* painted exactly when showBadges is set and the breakdown line exactly
\* when showPrice is set, and each one painted shows 12.
C7_InstallmentLayersFollowTheirFlag ==
    \A e \in Renders :
        LET badge == PartOps(RenderOps(e), "installmentsBadge")
            count == PartOps(RenderOps(e), "installmentsBadge.count")
            line  == PartOps(RenderOps(e), "installmentLine")
        IN  /\ e.product.installments = IntNum(1)
               => badge = <<>> /\ count = <<>> /\ line = <<>>
            /\ e.product.installments = IntNum(12)
               => /\ Len(badge) = (IF e.cfg.showBadges THEN 1 ELSE 0)
                  /\ Len(count) = (IF e.cfg.showBadges THEN 1 ELSE 0)
                  /\ \A i \in 1..Len(count) : count[i].text = <<"1", "2">>
                  /\ Len(line) = (IF e.cfg.showPrice THEN 1 ELSE 0)
                  /\ \A i \in 1..Len(line) :
                        SubSeq(line[i].text, 1, 4) = <<"Hasta ", "1", "2", "x ">>

\* a product with 12 installments rendered without badges and with the
\* price: the breakdown line is there, the badge is not
C7_Witness ==
    \E e \in Renders :
        /\ e.product.installments = IntNum(12)
        /\ ~e.cfg.showBadges /\ e.cfg.showPrice
        /\ PartOps(RenderOps(e), "installmentsBadge") = <<>>
        /\ Len(PartOps(RenderOps(e), "installmentLine")) = 1

\* C8: the bank badge is painted if and only if showBadges is set and the
\* resolved promo text is non-empty; with bankPromo and the default text
\* both empty no rectangle and no text of the badge is painted and the left
\* slot offset stays where it started.
C8_BankBadgeIffPromo ==
    \A e \in Renders :
        LET ops == RenderOps(e)
        IN  /\ \A part \in BankBadgeParts :
                  Len(PartOps(ops, part)) = (IF e.cfg.showBadges /\ ResolvedPromo(e) # <<>> THEN 1 ELSE 0)
            /\ (e.product.bankPromo = <<>> /\ e.cfg.customBankText = <<>>)
               => /\ \A part \in BankBadgeParts : PartOps(ops, part) = <<>>
                  /\ Badges(e.product, e.cfg).leftBadgeY = safeAreaTop + 20

\* a render with badges on of a product without bankPromo, the default text
\* empty: no bank badge among its layers
C8_Witness ==
    \E e \in Renders :
        /\ e.cfg.showBadges
        /\ e.product.bankPromo = <<>> /\ e.cfg.customBankText = <<>>
        /\ PartOps(RenderOps(e), "bankBadge") = <<>>
        /\ PartOps(RenderOps(e), "pickupBadge") # <<>>

\* C9: whenever the bank badge is painted its second line shows the
\* resolved promo text, so renders that differ only in that text paint
\* different second lines.
C9_SecondLineShowsPromo ==
    \A e \in Renders :
        LET second == PartOps(RenderOps(e), "bankBadge.second")
        IN  \A i \in 1..Len(second) : second[i].text = ResolvedPromo(e)

BadgeRectParts == {"bankBadge", "installmentsBadge", "pickupBadge"}

\* the rectangles of the badges among ops
BadgeRects(ops) == SelectSeq(ops, LAMBDA op : op.part \in BadgeRectParts)

Disjoint(a, b) ==
    \/ a.x + a.w <= b.x
    \/ b.x + b.w <= a.x
    \/ a.y + a.h <= b.y
    \/ b.y + b.h <= a.y

\* rows 130-870, columns 30-970
InSafeArea(r) ==
    /\ 30 <= r.x /\ r.x + r.w <= WIDTH - 30
    /\ safeAreaTop <= r.y /\ r.y + r.h <= safeAreaTop + safeAreaHeight

\* C13: the rectangles of the badges of one render are pairwise disjoint
\* and inside the safe area; the installment badge is in the first slot on
\* the right and only there when installments > 1; the pickup badge is in
\* that slot when installments <= 1 and one slot below the installment
\* badge when installments > 1; the offset of a side moves on exactly when
\* the badge above was painted.
C13_BadgesStackWithoutOverlap ==
    \A e \in Renders :
        LET ops    == RenderOps(e)
            rects  == BadgeRects(ops)
            bank   == PartOps(ops, "bankBadge")
            inst   == PartOps(ops, "installmentsBadge")
            pickup == PartOps(ops, "pickupBadge")
            first  == safeAreaTop + 20
        IN  /\ \A i \in 1..Len(rects) :
                  /\ InSafeArea(rects[i])
                  /\ \A j \in (i + 1)..Len(rects) : Disjoint(rects[i], rects[j])
            /\ Len(rects) = Len(bank) + Len(inst) + Len(pickup)
            /\ Len(inst) = (IF e.cfg.showBadges /\ NumGt(e.product.installments, 1) THEN 1 ELSE 0)
            /\ Len(pickup) = (IF e.cfg.showBadges /\ e.product.pickup THEN 1 ELSE 0)
            /\ \A i \in 1..Len(inst) : inst[i].y = first /\ inst[i].x + inst[i].w = WIDTH - 30
            /\ \A i \in 1..Len(pickup) :
                  /\ pickup[i].x + pickup[i].w = WIDTH - 30
                  /\ NumLe(e.product.installments, 1) => pickup[i].y = first
                  /\ NumGt(e.product.installments, 1) => pickup[i].y = inst[1].y + inst[1].h + 10
                  /\ pickup[i].y = (IF inst = <<>> THEN first ELSE first + 80)
            /\ \A i \in 1..Len(bank) : bank[i].y = first /\ bank[i].x = 30
            /\ Badges(e.product, e.cfg).leftBadgeY = (IF bank = <<>> THEN first ELSE first + 90)
            /\ Badges(e.product, e.cfg).rightBadgeY = (IF inst = <<>> THEN first ELSE first + 80)

\* all three badges painted in one render, the pickup badge below the
\* installment badge
C13_Witness ==
    \E e \in Renders :
        /\ Len(BadgeRects(RenderOps(e))) = 3
        /\ PartOps(RenderOps(e), "pickupBadge")[1].y = safeAreaTop + 20 + 80

(***************************************************************************)
(* Termination of the feed load and of the batch run, checked under        *)
(* SpecLive.                                                               *)
(***************************************************************************)
InFlight(l) == l <= Len(loads) /\ loads[l].pc = "fetch"
Completed(l) == l <= Len(loads) /\ loads[l].pc \in {"loaded", "failed"}
Running == batch.pc \in {"settle", "draw", "pace"}
Exported(log) == Cardinality({j \in 1..Len(log) : log[j][1] = "export"})

\* the step in which a load completes leaves loadingData false
LoadCompletesNotLoading ==
    [][\A l \in 1..Len(loads) :
          (loads[l].pc = "fetch" /\ loads'[l].pc # "fetch") => ~loadingData']_vars

\* a run in progress keeps the list it started with and stays in progress
\* until its loop has ended, whatever else happens
RunKeepsItsList ==
    [][Running => /\ batch'.products = batch.products
                  /\ processing /\ batch'.pc # "idle"
                  /\ (batch'.pc = "finished") = (~processing')
                  /\ batch'.pc = "finished" =>
                        /\ Exported(batch'.log) = Len(batch.products)
                        /\ batch'.log = ExpectedLog(Len(batch.products))]_vars

\* C14: every started feed load eventually completes, and the step that
\* completes it leaves loadingData false; every started batch run eventually
\* completes with processing false, having exported one image per product of
\* the list it started with; product clicks, configuration changes and feed
\* loads in the meantime neither cancel nor shorten either.
C14_LoadsAndRunsComplete ==
    /\ \A l \in 1..MaxGestures : InFlight(l) ~> Completed(l)
    /\ LoadCompletesNotLoading
    /\ Running ~> (batch.pc = "finished" /\ ~processing
                   /\ Exported(batch.log) = Len(batch.products))
    /\ RunKeepsItsList

\* a run over the demo list has finished although a feed load was started
\* while it was in progress, and that load has completed too
C14_Witness ==
    /\ batch.pc = "finished" /\ ~processing
    /\ batch.products = <<DEMO_PRODUCT>>
    /\ Exported(batch.log) = 1
    /\ loads # <<>> /\ Completed(1) /\ ~loadingData

(***************************************************************************)
(* Properties of the handlers running interleaved, checked under Spec.     *)
(***************************************************************************)
InProducts(p) == \E i \in 1..Len(products) : products[i] = p

\* C15: in every reachable state selectedProduct is null or an element of
\* the current products collection, however feed loads, product clicks, the
\* demo button and batch runs interleave.
C15_SelectedInProducts ==
    selectedProduct # <<>> => InProducts(selectedProduct[1])

AnyInFlight == \E l \in 1..Len(loads) : loads[l].pc = "fetch"

\* the products a state holds came from load b or from 'Cargar Demo'
FromLoad(p, b) == p.ref.load \in {0, b}

\* C16: when a load is started while an earlier one is in flight, then once
\* both have completed products, selectedProduct and errorMsg are those of
\* the most recently started load, and loadingData is true in every state
\* in which a load is in flight.  (The reset at its start makes this true of
\* a load started after the earlier ones have completed, so the formula is
\* stated for the last started load of any two.)
C16_LastStartedLoadWins ==
    /\ AnyInFlight => loadingData
    /\ (Len(loads) >= 2 /\ ~AnyInFlight) =>
          LET b == Len(loads)
          IN  /\ errorMsg = (IF loads[b].pc = "failed" THEN loads[b].thrown ELSE Null)
              /\ \A i \in 1..Len(products) : FromLoad(products[i], b)
              /\ (selectedProduct # <<>> /\ batch.pc = "idle") => FromLoad(selectedProduct[1], b)
              /\ (loads[b].pc = "failed" /\ gestures = Len(loads)) =>
                    (products = <<>> /\ selectedProduct = <<>>)

====
